---- MODULE Spec2Model ----
(***************************************************************************)
(* Model of generateNodeJsProjectStructureFiles.js: the Tree Writer        *)
(* (generate-project, lines 1-87) and the Tree Reader (read-project,       *)
(* lines 88-211) run against a small tree-shaped filesystem.               *)
(*                                                                         *)
(* A path is a sequence of components; the filesystem is a function from   *)
(* the existing absolute paths to nodes.  A thrown exception is a result   *)
(* record with ok = FALSE.                                                 *)
(***************************************************************************)
EXTENDS Integers, Sequences, FiniteSets, TLC

VARIABLES script, argv, input, fs, pc, idx, exitCode, stdout, run,
          directoryJSON, jsonOutput, savedFile, fs0, fs1, exit1

vars == <<script, argv, input, fs, pc, idx, exitCode, stdout, run,
          directoryJSON, jsonOutput, savedFile, fs0, fs1, exit1>>

(* ------------------------------ bounds -------------------------------- *)

\* longest project_files list
MaxLen == 3

(* ---------------------------- filesystem ------------------------------ *)

Dir == [kind |-> "dir", content |-> "", mode |-> "rwx"]

File(c) == [kind |-> "file", content |-> c, mode |-> "rw"]

\* a regular file whose content cannot be read (EACCES)
UnreadableFile(c) == [kind |-> "file", content |-> c, mode |-> "-"]

\* a symbolic link whose target is missing: stat raises ENOENT
DanglingLink == [kind |-> "link", content |-> "", mode |-> "rwx"]

\* an entry that is neither a directory nor a regular file (fifo, socket)
Other == [kind |-> "other", content |-> "", mode |-> "rw"]

\* process.cwd()
Cwd == <<"p">>

Front(p) == SubSeq(p, 1, Len(p) - 1)

Last(p) == p[Len(p)]

IsPrefix(r, p) == Len(r) <= Len(p) /\ SubSeq(p, 1, Len(r)) = r

Prefixes(p) == { SubSeq(p, 1, i) : i \in 0..Len(p) }

RECURSIVE normalize(_, _)
\* path.normalize: "." is dropped, ".." removes the component before it
normalize(acc, rest) ==
  IF rest = <<>> THEN acc
  ELSE LET h == Head(rest) IN
       IF h = "." THEN normalize(acc, Tail(rest))
       ELSE IF h = ".."
            THEN normalize(IF acc = <<>> THEN <<>> ELSE Front(acc), Tail(rest))
            ELSE normalize(Append(acc, h), Tail(rest))

\* variant: only the last component of the name is kept
pathJoinFlat(a, b) == normalize(<<>>, a \o <<Last(b)>>)

pathJoin(a, b) == normalize(<<>>, a \o b)

pathResolve(p) == normalize(<<>>, Cwd \o p)

pathDirname(p) == IF p = <<>> THEN <<>> ELSE Front(p)

existsSync(f, p) == p \in DOMAIN f /\ f[p].kind # "link"

IsDir(f, p) == p \in DOMAIN f /\ f[p].kind = "dir"

\* fs.mkdirSync(p): EEXIST when p exists, ENOENT/ENOTDIR when the parent
\* is not a directory
mkdirSync(f, p) ==
  IF p \in DOMAIN f \/ ~IsDir(f, pathDirname(p))
  THEN [ok |-> FALSE, fs |-> f]
  ELSE [ok |-> TRUE, fs |-> (p :> Dir) @@ f]

\* fs.mkdirSync(p, {recursive: true}): creates every missing ancestor;
\* raises when a component of p exists and is not a directory
mkdirSyncRecursive(f, p) ==
  IF \E q \in Prefixes(p) : q \in DOMAIN f /\ f[q].kind # "dir"
  THEN [ok |-> FALSE, fs |-> f]
  ELSE [ok |-> TRUE,
        fs |-> [q \in DOMAIN f \cup Prefixes(p) |->
                  IF q \in DOMAIN f THEN f[q] ELSE Dir]]

\* fs.writeFileSync(p, c): EISDIR when p is a directory, ENOENT/ENOTDIR
\* when the parent is not a directory; otherwise p holds exactly c
writeFileSync(f, p, c) ==
  IF p \in DOMAIN f
  THEN IF f[p].kind = "dir" THEN [ok |-> FALSE, fs |-> f]
       ELSE [ok |-> TRUE, fs |-> [f EXCEPT ![p] = File(c)]]
  ELSE IF IsDir(f, pathDirname(p))
       THEN [ok |-> TRUE, fs |-> (p :> File(c)) @@ f]
       ELSE [ok |-> FALSE, fs |-> f]

\* fs.rmSync(p, {recursive: true, force: true})
rmSync(f, p) == [q \in { r \in DOMAIN f : ~IsPrefix(p, r) } |-> f[q]]

\* fs.readdirSync(p): the names of the entries of directory p
Listable(f, p) == IsDir(f, p) /\ f[p].mode = "rwx"

readdirSync(f, p) == { Last(q) : q \in { r \in DOMAIN f : r # <<>> /\ Front(r) = p } }

(* ------------------------- Tree Reader function ------------------------ *)

Str(s) == [t |-> "str", s |-> s]

Obj(m) == [t |-> "obj", m |-> m]

\* directoryJSON before any scan
NotRead == [t |-> "none"]

\* line 145: { error: `Error reading directory: ...` }
DirErrorObject == Obj("error" :> Str("Error reading directory"))

\* line 138
FileErrorMarker == Str("Error reading file")

\* fs.statSync(p) raises for a dangling link
statThrows(f, p) == f[p].kind = "link"

\* fs.readFileSync(p, 'utf8')
readFileSync(f, p) ==
  IF f[p].kind = "file" /\ f[p].mode # "-"
  THEN [ok |-> TRUE, content |-> f[p].content]
  ELSE [ok |-> FALSE, content |-> ""]

RECURSIVE readDirectoryStructure(_, _)
\* lines 109-149
readDirectoryStructure(f, dirPath) ==
  IF ~Listable(f, dirPath) THEN DirErrorObject
  ELSE LET items == readdirSync(f, dirPath) IN
       IF \E item \in items : statThrows(f, Append(dirPath, item))
       THEN DirErrorObject
       ELSE Obj([item \in { i \in items :
                              f[Append(dirPath, i)].kind \in {"dir", "file"} } |->
                 LET itemPath == Append(dirPath, item) IN
                 IF f[itemPath].kind = "dir"
                 THEN readDirectoryStructure(f, itemPath)
                 ELSE LET r == readFileSync(f, itemPath) IN
                      IF r.ok THEN Str(r.content) ELSE FileErrorMarker])

RECURSIVE JSONstringify(_)
RECURSIVE stringifyMembers(_, _)
\* JSON.stringify(value, null, 2) as a sequence of tokens
JSONstringify(v) ==
  IF v.t = "str" THEN <<"\"", v.s, "\"">>
  ELSE <<"{">> \o stringifyMembers(v.m, DOMAIN v.m) \o <<"}">>

stringifyMembers(m, keys) ==
  IF keys = {} THEN <<>>
  ELSE LET k == CHOOSE x \in keys : TRUE IN
       <<"\"", k, "\"", ":">> \o JSONstringify(m[k])
         \o (IF keys = {k} THEN <<>> ELSE <<",">>)
         \o stringifyMembers(m, keys \ {k})

(* ------------------------------ inputs -------------------------------- *)

NoExit == -1

\* entries of project_files: {name, content}, entries lacking a key, null
Entries ==
  { [name |-> <<"a">>, content |-> "x"],
    [name |-> <<".", "a">>, content |-> "y"],
    [name |-> <<"a", "b", "c">>, content |-> "x"],
    [name |-> <<"..", "x">>, content |-> "y"],
    [name |-> <<".">>, content |-> "x"],
    [content |-> "x"],
    [name |-> <<"a">>],
    [jsnull |-> TRUE] }

Lists == UNION { [1..n -> Entries] : n \in 0..MaxLen }

\* the JSON input file: absent, not JSON, or the parsed document
Inputs ==
  { [kind |-> k, project_files |-> <<>>] :
      k \in {"absent", "invalid", "nokey", "notarray"} }
  \cup { [kind |-> "array", project_files |-> l] : l \in Lists }

BaseFS == (<<>> :> Dir) @@ (<<"p">> :> Dir)

OutDir == <<"p", "out">>

\* states of the disk when generate-project starts
WriterFSs ==
  { BaseFS,
    (OutDir :> Dir) @@ BaseFS,
    (OutDir :> Dir) @@ (Append(OutDir, "keep") :> File("z"))
       @@ (Append(OutDir, "d") :> Dir)
       @@ (OutDir \o <<"d", "k">> :> File("z")) @@ BaseFS,
    (OutDir :> Dir) @@ (Append(OutDir, "a") :> File("z"))
       @@ (<<"p", "x">> :> File("z")) @@ BaseFS,
    (OutDir :> File("z")) @@ BaseFS }

WriterArgvs ==
  { <<>>, << <<"in.json">> >>, << <<"in.json">>, <<"out">> >>,
    << <<"in.json">>, <<"q", "out">> >> }

\* states of the disk when read-project starts
ReaderFSs ==
  { BaseFS,
    (OutDir :> Dir) @@ BaseFS,
    (OutDir :> Dir) @@ (Append(OutDir, "a") :> File("x"))
       @@ (Append(OutDir, "sub") :> Dir)
       @@ (OutDir \o <<"sub", "b">> :> File("y")) @@ BaseFS,
    (OutDir :> Dir) @@ (Append(OutDir, "a") :> File("x"))
       @@ (Append(OutDir, "u") :> UnreadableFile("y"))
       @@ (Append(OutDir, "sub") :> Dir)
       @@ (OutDir \o <<"sub", "b">> :> File("y")) @@ BaseFS,
    (OutDir :> Dir) @@ (Append(OutDir, "a") :> File("x"))
       @@ (Append(OutDir, "sub") :> Dir)
       @@ (OutDir \o <<"sub", "u">> :> UnreadableFile("y")) @@ BaseFS,
    (OutDir :> Dir) @@ (Append(OutDir, "a") :> File("x"))
       @@ (Append(OutDir, "l") :> DanglingLink) @@ BaseFS,
    (OutDir :> Dir) @@ (Append(OutDir, "a") :> File("x"))
       @@ (Append(OutDir, "sub") :> Dir)
       @@ (OutDir \o <<"sub", "b">> :> File("y"))
       @@ (OutDir \o <<"sub", "l">> :> DanglingLink) @@ BaseFS,
    (OutDir :> Dir) @@ (Append(OutDir, "a") :> File("x"))
       @@ (Append(OutDir, "o") :> Other) @@ BaseFS,
    (OutDir :> [Dir EXCEPT !.mode = "-"])
       @@ (Append(OutDir, "a") :> File("x")) @@ BaseFS,
    (OutDir :> File("z")) @@ BaseFS,
    (<<"p", "f">> :> File("z")) @@ BaseFS }

ReaderArgvs == { <<>>, << <<"out">> >>, << <<"f", "out">> >> }

(* ------------------------------- Init --------------------------------- *)

WriterInit ==
  /\ script = "generate-project"
  /\ argv \in WriterArgvs
  /\ input \in Inputs
  /\ fs \in WriterFSs
  /\ (argv # << <<"in.json">>, <<"out">> >> => fs = BaseFS)

ReaderInit ==
  /\ script = "read-project"
  /\ argv \in ReaderArgvs
  /\ input = [kind |-> "absent", project_files |-> <<>>]
  /\ fs \in ReaderFSs

Init ==
  /\ WriterInit \/ ReaderInit
  /\ pc = "argv"
  /\ idx = 0
  /\ exitCode = NoExit
  /\ stdout = <<>>
  /\ run = 1
  /\ directoryJSON = NotRead
  /\ jsonOutput = <<>>
  /\ savedFile = <<>>
  /\ fs0 = fs
  /\ fs1 = fs
  /\ exit1 = NoExit

Running(s) == script = s /\ exitCode = NoExit

Log(ev, i, path) == [ev |-> ev, i |-> i, path |-> path]

(* ---------------------- generate-project (1-87) ----------------------- *)

\* line 76
outputDir == IF Len(argv) >= 2 THEN argv[2] ELSE <<"generated-project">>

\* line 15
projectRoot == pathResolve(outputDir)

\* lines 75-87: the script body checks argv[2] and calls generateProject
WriterScriptBody ==
  /\ Running("generate-project") /\ pc = "argv"
  /\ IF Len(argv) = 0
     THEN /\ exitCode' = 1
          /\ stdout' = Append(stdout, Log("usage", 0, <<>>))
          /\ pc' = pc
     ELSE /\ pc' = "validate"
          /\ UNCHANGED <<exitCode, stdout>>
  /\ UNCHANGED <<script, argv, input, fs, idx, run, directoryJSON,
                 jsonOutput, savedFile, fs0, fs1, exit1>>

\* variant: only the presence of project_files is tested, not Array.isArray
ReadAndValidateKeyOnly ==
  /\ Running("generate-project") /\ pc = "validate"
  /\ IF input.kind \notin {"array", "notarray"}
     THEN /\ exitCode' = 1
          /\ stdout' = Append(stdout, Log("error", 0, <<>>))
          /\ pc' = pc
     ELSE /\ pc' = "mkroot"
          /\ UNCHANGED <<exitCode, stdout>>
  /\ UNCHANGED <<script, argv, input, fs, idx, run, directoryJSON,
                 jsonOutput, savedFile, fs0, fs1, exit1>>

\* lines 12-30 and the catch of 62-68: read, parse, validate
ReadAndValidate ==
  /\ Running("generate-project") /\ pc = "validate"
  /\ IF input.kind # "array"
     THEN /\ exitCode' = 1
          /\ stdout' = Append(stdout, Log("error", 0, <<>>))
          /\ pc' = pc
     ELSE /\ pc' = "mkroot"
          /\ UNCHANGED <<exitCode, stdout>>
  /\ UNCHANGED <<script, argv, input, fs, idx, run, directoryJSON,
                 jsonOutput, savedFile, fs0, fs1, exit1>>

\* variant: mkdirSync is called without the existsSync test
CreateRootNoCheck ==
  /\ Running("generate-project") /\ pc = "mkroot"
  /\ LET r == mkdirSync(fs, projectRoot) IN
     IF r.ok
     THEN /\ fs' = r.fs
          /\ stdout' = Append(stdout, Log("root", 0, projectRoot))
          /\ pc' = "forEach" /\ idx' = 1
          /\ UNCHANGED exitCode
     ELSE /\ exitCode' = 1
          /\ stdout' = Append(stdout, Log("error", 0, <<>>))
          /\ UNCHANGED <<fs, pc, idx>>
  /\ UNCHANGED <<script, argv, input, run, directoryJSON,
                 jsonOutput, savedFile, fs0, fs1, exit1>>

\* lines 32-36: create the root directory if it does not exist
CreateRoot ==
  /\ Running("generate-project") /\ pc = "mkroot"
  /\ IF existsSync(fs, projectRoot)
     THEN /\ pc' = "forEach" /\ idx' = 1
          /\ UNCHANGED <<fs, exitCode, stdout>>
     ELSE LET r == mkdirSync(fs, projectRoot) IN
          IF r.ok
          THEN /\ fs' = r.fs
               /\ stdout' = Append(stdout, Log("root", 0, projectRoot))
               /\ pc' = "forEach" /\ idx' = 1
               /\ UNCHANGED exitCode
          ELSE /\ exitCode' = 1
               /\ stdout' = Append(stdout, Log("error", 0, <<>>))
               /\ UNCHANGED <<fs, pc, idx>>
  /\ UNCHANGED <<script, argv, input, run, directoryJSON,
                 jsonOutput, savedFile, fs0, fs1, exit1>>

\* a null element of the array: file.name raises TypeError
IsNull(file) == "jsnull" \in DOMAIN file

\* line 40: !file.name || typeof file.content === 'undefined'
InvalidEntry(file) ==
  IF "name" \notin DOMAIN file THEN TRUE
  ELSE IF file.name = <<>> THEN TRUE
  ELSE "content" \notin DOMAIN file

\* lines 45-56 for one entry: the result of mkdir and write
writeEntry(f, root, file) ==
  LET filePath == pathJoin(root, file.name)
      dirName  == pathDirname(filePath)
      m == IF existsSync(f, dirName)
           THEN [ok |-> TRUE, fs |-> f]
           ELSE mkdirSyncRecursive(f, dirName)
  IN  IF m.ok THEN writeFileSync(m.fs, filePath, file.content) ELSE m

InLoop == Running("generate-project") /\ pc = "forEach"
            /\ idx <= Len(input.project_files)

\* variant: an invalid entry raises instead of returning from the callback
SkipInvalidEntryAborts ==
  /\ InLoop
  /\ ~IsNull(input.project_files[idx])
  /\ InvalidEntry(input.project_files[idx])
  /\ stdout' = Append(stdout, Log("skip", idx, <<>>))
  /\ exitCode' = 1
  /\ UNCHANGED <<script, argv, input, fs, pc, idx, run, directoryJSON,
                 jsonOutput, savedFile, fs0, fs1, exit1>>

\* lines 40-43: an entry without name or content is skipped with a warning
SkipInvalidEntry ==
  /\ InLoop
  /\ ~IsNull(input.project_files[idx])
  /\ InvalidEntry(input.project_files[idx])
  /\ stdout' = Append(stdout, Log("skip", idx, <<>>))
  /\ idx' = idx + 1
  /\ UNCHANGED <<script, argv, input, fs, pc, exitCode, run, directoryJSON,
                 jsonOutput, savedFile, fs0, fs1, exit1>>

\* lines 45-57: directories are created and the file is written
WriteEntry ==
  /\ InLoop
  /\ ~IsNull(input.project_files[idx])
  /\ ~InvalidEntry(input.project_files[idx])
  /\ LET file == input.project_files[idx]
         r == writeEntry(fs, projectRoot, file) IN
     /\ r.ok
     /\ fs' = r.fs
     /\ stdout' = Append(stdout,
                    Log("file", idx, pathJoin(projectRoot, file.name)))
  /\ idx' = idx + 1
  /\ UNCHANGED <<script, argv, input, pc, exitCode, run, directoryJSON,
                 jsonOutput, savedFile, fs0, fs1, exit1>>

\* variant: the exception is caught per entry and the loop goes on
EntryThrowsContinues ==
  /\ InLoop
  /\ LET file == input.project_files[idx] IN
     IF IsNull(file) THEN fs' = fs
     ELSE /\ ~InvalidEntry(file)
          /\ LET r == writeEntry(fs, projectRoot, file) IN
             ~r.ok /\ fs' = r.fs
  /\ idx' = idx + 1
  /\ stdout' = Append(stdout, Log("error", idx, <<>>))
  /\ UNCHANGED <<script, argv, input, pc, exitCode, run, directoryJSON,
                 jsonOutput, savedFile, fs0, fs1, exit1>>

\* lines 39-58 raising into the catch of 62-68: process.exit(1)
EntryThrows ==
  /\ InLoop
  /\ LET file == input.project_files[idx] IN
     IF IsNull(file) THEN fs' = fs
     ELSE /\ ~InvalidEntry(file)
          /\ LET r == writeEntry(fs, projectRoot, file) IN
             ~r.ok /\ fs' = r.fs
  /\ exitCode' = 1
  /\ stdout' = Append(stdout, Log("error", idx, <<>>))
  /\ UNCHANGED <<script, argv, input, pc, idx, run, directoryJSON,
                 jsonOutput, savedFile, fs0, fs1, exit1>>

\* line 60 and the normal end of the process
Complete ==
  /\ Running("generate-project") /\ pc = "forEach"
  /\ idx > Len(input.project_files)
  /\ pc' = "done"
  /\ exitCode' = 0
  /\ stdout' = Append(stdout, Log("complete", 0, <<>>))
  /\ UNCHANGED <<script, argv, input, fs, idx, run, directoryJSON,
                 jsonOutput, savedFile, fs0, fs1, exit1>>

\* the same command line is run a second time on the disk the first left
SecondRun ==
  /\ script = "generate-project" /\ exitCode # NoExit /\ run = 1
  /\ run' = 2
  /\ pc' = "argv" /\ idx' = 0 /\ exitCode' = NoExit /\ stdout' = <<>>
  /\ directoryJSON' = NotRead
  /\ fs1' = fs /\ exit1' = exitCode
  /\ UNCHANGED <<script, argv, input, fs, jsonOutput, savedFile, fs0>>

\* readDirectoryStructure (109-149) applied to the root the writer filled
ReadOutputRoot ==
  /\ script = "generate-project" /\ exitCode # NoExit
  /\ directoryJSON = NotRead
  /\ directoryJSON' = readDirectoryStructure(fs, projectRoot)
  /\ UNCHANGED <<script, argv, input, fs, pc, idx, exitCode, stdout, run,
                 jsonOutput, savedFile, fs0, fs1, exit1>>

(* ----------------------- read-project (88-211) ------------------------ *)

\* line 158
targetPath == argv[1]

\* line 168
projectPath == pathResolve(targetPath)

\* lines 158-165
ReaderScriptBody ==
  /\ Running("read-project") /\ pc = "argv"
  /\ IF Len(argv) = 0
     THEN /\ exitCode' = 1
          /\ stdout' = Append(stdout, Log("usage", 0, <<>>))
          /\ pc' = pc
     ELSE /\ pc' = "scan"
          /\ UNCHANGED <<exitCode, stdout>>
  /\ UNCHANGED <<script, argv, input, fs, idx, run, directoryJSON,
                 jsonOutput, savedFile, fs0, fs1, exit1>>

\* variant: a top-level error object ends the process with code 1
FirstScanExitsOnError ==
  /\ Running("read-project") /\ pc = "scan"
  /\ directoryJSON' = readDirectoryStructure(fs, projectPath)
  /\ IF directoryJSON' = DirErrorObject
     THEN exitCode' = 1 /\ pc' = pc
     ELSE pc' = "dummy" /\ UNCHANGED exitCode
  /\ UNCHANGED <<script, argv, input, fs, idx, stdout, run,
                 jsonOutput, savedFile, fs0, fs1, exit1>>

\* lines 168-171
FirstScan ==
  /\ Running("read-project") /\ pc = "scan"
  /\ directoryJSON' = readDirectoryStructure(fs, projectPath)
  /\ pc' = "dummy"
  /\ UNCHANGED <<script, argv, input, fs, idx, exitCode, stdout, run,
                 jsonOutput, savedFile, fs0, fs1, exit1>>

\* lines 175-187: the filesystem calls of createDummyProject in order;
\* the first one that raises ends the sequence
dummyProject(f, root) ==
  LET f1 == IF existsSync(f, root) THEN rmSync(f, root) ELSE f
      r2 == mkdirSyncRecursive(f1, root)
      r3 == IF r2.ok THEN mkdirSync(r2.fs, Append(root, "src")) ELSE r2
      r4 == IF r3.ok THEN mkdirSync(r3.fs, Append(root, "test")) ELSE r3
      r5 == IF r4.ok
            THEN writeFileSync(r4.fs, Append(root, "package.json"), "pkg")
            ELSE r4
      r6 == IF r5.ok
            THEN writeFileSync(r5.fs, root \o <<"src", "index.js">>, "hello")
            ELSE r5
      r7 == IF r6.ok
            THEN writeFileSync(r6.fs, root \o <<"src", "utils.js">>, "add")
            ELSE r6
  IN  IF r7.ok
      THEN writeFileSync(r7.fs, root \o <<"test", "utils.test.js">>, "tests")
      ELSE r7

\* lines 174-191: createDummyProject is defined and called unconditionally;
\* an exception it raises is uncaught and ends the process with code 1
CreateDummyProject ==
  /\ Running("read-project") /\ pc = "dummy"
  /\ LET r == dummyProject(fs, projectPath) IN
     /\ fs' = r.fs
     /\ IF r.ok
        THEN /\ pc' = "rescan"
             /\ stdout' = Append(stdout, Log("dummy", 0, projectPath))
             /\ UNCHANGED exitCode
        ELSE /\ exitCode' = 1
             /\ stdout' = Append(stdout, Log("error", 0, <<>>))
             /\ pc' = pc
  /\ UNCHANGED <<script, argv, input, idx, run, directoryJSON,
                 jsonOutput, savedFile, fs0, fs1, exit1>>

\* lines 195-199
SecondScan ==
  /\ Running("read-project") /\ pc = "rescan"
  /\ directoryJSON' = readDirectoryStructure(fs, projectPath)
  /\ jsonOutput' = JSONstringify(directoryJSON')
  /\ pc' = "print"
  /\ UNCHANGED <<script, argv, input, fs, idx, exitCode, stdout, run,
                 savedFile, fs0, fs1, exit1>>

\* lines 202-211: print, then save; a failed save is caught and logged
PrintAndSave ==
  /\ Running("read-project") /\ pc = "print"
  /\ \E saved \in BOOLEAN :
       /\ savedFile' = IF saved THEN jsonOutput ELSE savedFile
       /\ stdout' = Append(Append(stdout, Log("json", 0, jsonOutput)),
                           Log(IF saved THEN "saved" ELSE "error", 0, <<>>))
  /\ pc' = "done"
  /\ exitCode' = 0
  /\ UNCHANGED <<script, argv, input, fs, idx, run, directoryJSON,
                 jsonOutput, fs0, fs1, exit1>>

Next ==
  \/ WriterScriptBody
  \/ ReadAndValidate
  \/ CreateRoot
  \/ SkipInvalidEntry
  \/ WriteEntry
  \/ EntryThrows
  \/ Complete
  \/ SecondRun
  \/ ReadOutputRoot
  \/ ReaderScriptBody
  \/ FirstScan
  \/ CreateDummyProject
  \/ SecondScan
  \/ PrintAndSave

Spec == Init /\ [][Next]_vars

(* =============================== claims =============================== *)

Terminated == exitCode # NoExit

Writer == script = "generate-project"

Reader == script = "read-project"

list == input.project_files

\* the disk as the current run of generate-project found it
StartFS == IF run = 1 THEN fs0 ELSE fs1

Missing == [t |-> "missing"]

RECURSIVE Lookup(_, _)
\* the value reached by following the components of p through nested objects
Lookup(node, p) ==
  IF p = <<>> THEN node
  ELSE IF node.t = "obj"
       THEN IF Head(p) \in DOMAIN node.m
            THEN Lookup(node.m[Head(p)], Tail(p))
            ELSE Missing
       ELSE Missing

\* the absolute path an entry name denotes below the root
Target(name) == normalize(<<>>, projectRoot \o name)

Inside(root, q) == IsPrefix(root, q)

Relative(root, q) == SubSeq(q, Len(root) + 1, Len(q))

WellFormed(l) ==
  \A i \in 1..Len(l) : ~IsNull(l[i]) /\ ~InvalidEntry(l[i])

EmptyRoot(f, root) ==
  /\ IsDir(f, root)
  /\ \A q \in DOMAIN f : Inside(root, q) => q = root

\* generate-project has completed its first run on an empty root and the
\* root has been read back
RoundTripDone ==
  /\ Writer /\ run = 1 /\ pc = "done" /\ exitCode = 0
  /\ input.kind = "array" /\ WellFormed(list)
  /\ EmptyRoot(fs0, projectRoot)
  /\ directoryJSON # NotRead

\* C1 as stated: after a completed run on an empty root, every listed entry
\* is found in the mapping read back, by the components of its name, with
\* its own content.
C1_RoundTripEveryEntry ==
  RoundTripDone =>
    \A i \in 1..Len(list) :
      Lookup(directoryJSON, list[i].name) = Str(list[i].content)

\* C1 amended: after a run that completed with exit code 0 on an empty root,
\* every listed entry whose target path lies inside the root and is not the
\* target of a later entry is found in the mapping read back, by the
\* components of its normalized path below the root, with its own content.
C1_RoundTripLastWriter ==
  RoundTripDone =>
    \A i \in 1..Len(list) :
      LET t == Target(list[i].name) IN
      ( /\ Inside(projectRoot, t)
        /\ \A j \in (i + 1)..Len(list) : Target(list[j].name) # t )
      => Lookup(directoryJSON, Relative(projectRoot, t)) = Str(list[i].content)

C1_Witness ==
  /\ RoundTripDone
  /\ \E i \in 1..Len(list) : list[i].name = <<"a", "b", "c">>
  /\ Lookup(directoryJSON, <<"a", "b">>).t = "obj"
  /\ Lookup(directoryJSON, <<"a", "b", "c">>) = Str("x")

\* C2: when project_files is missing or is not a list the run can only end
\* with exit code 1, and at no point is a file written or a directory (the
\* root included) created.
C2_SchemaRejection ==
  (Writer /\ input.kind \in {"nokey", "notarray"}) =>
    /\ fs = StartFS
    /\ exitCode \in {NoExit, 1}
    /\ pc \in {"argv", "validate"}

C2_Witness ==
  /\ Writer /\ input.kind \in {"nokey", "notarray"}
  /\ pc = "validate" /\ exitCode = 1
  /\ ~existsSync(fs, projectRoot)

RECURSIVE runEntries(_, _)
\* the outcome of processing the entries of l in order from disk f
runEntries(f, l) ==
  IF l = <<>> THEN [ok |-> TRUE, fs |-> f]
  ELSE IF IsNull(Head(l)) THEN [ok |-> FALSE, fs |-> f]
  ELSE LET r == writeEntry(f, projectRoot, Head(l)) IN
       IF r.ok THEN runEntries(r.fs, Tail(l)) ELSE r

\* the outcome of a run on list l from disk f once validation has passed
referenceRun(f, l) ==
  IF existsSync(f, projectRoot) THEN runEntries(f, l)
  ELSE LET r == mkdirSync(f, projectRoot) IN
       IF r.ok THEN runEntries(r.fs, l) ELSE r

Skippable(e) == ~IsNull(e) /\ InvalidEntry(e)

WithoutInvalid(l) == SelectSeq(l, LAMBDA e : ~Skippable(e))

EventsOf(i) == { n \in 1..Len(stdout) : stdout[n].i = i }

\* a validated run of generate-project has ended
ValidatedRunEnded ==
  /\ Writer /\ Terminated
  /\ input.kind = "array"
  /\ pc \in {"mkroot", "forEach", "done"}

SkippedWithoutWriting ==
  \A i \in 1..Len(list) :
    Skippable(list[i]) =>
      \A n \in EventsOf(i) : stdout[n].ev = "skip"

\* C3 as stated: once the entries are being processed, invalid entries are
\* skipped, the disk is what the list without them produces, and the run
\* ends with exit code 0.
C3_SkipAlwaysExitZero ==
  (ValidatedRunEnded /\ pc \in {"forEach", "done"}) =>
    /\ SkippedWithoutWriting
    /\ fs = referenceRun(StartFS, WithoutInvalid(list)).fs
    /\ exitCode = 0

\* C3 amended: every entry that is not null and lacks name or has undefined
\* content is skipped without writing, the disk is what the list without
\* those entries produces, and the exit code is the one that list produces:
\* 0 unless creating the root or processing a remaining entry raises.
C3_SkipLeavesRunUnaffected ==
  ValidatedRunEnded =>
    LET ref == referenceRun(StartFS, WithoutInvalid(list)) IN
    /\ SkippedWithoutWriting
    /\ fs = ref.fs
    /\ exitCode = IF ref.ok THEN 0 ELSE 1

C3_Witness ==
  /\ ValidatedRunEnded /\ exitCode = 0
  /\ \E i, j \in 1..Len(list) :
       /\ i < j /\ Skippable(list[i])
       /\ \E n \in EventsOf(i) : stdout[n].ev = "skip"
       /\ \E n \in EventsOf(j) : stdout[n].ev = "file"

\* the paths at or below root
Under(f, root) == { q \in DOMAIN f : Inside(root, q) }

SameUnder(f, g, root) ==
  /\ Under(f, root) = Under(g, root)
  /\ \A q \in Under(f, root) : f[q] = g[q]

\* read-project was given a directory argument and has ended
ReaderEnded == Reader /\ Terminated /\ Len(argv) > 0

\* C4: read-project on an existing directory D prints and saves the mapping
\* of what D held when the script was invoked and leaves D's contents
\* unchanged.
C4_ReaderLeavesDirectory ==
  (ReaderEnded /\ IsDir(fs0, projectPath)) =>
    /\ SameUnder(fs, fs0, projectPath)
    /\ jsonOutput = JSONstringify(readDirectoryStructure(fs0, projectPath))

\* an ancestor of the directory argument is not a directory, so that
\* createDummyProject cannot create it
Uncreatable(f, p) ==
  \E q \in Prefixes(p) \ {p} : q \in DOMAIN f /\ f[q].kind # "dir"

FailingEntries(f, root) ==
  { q \in Under(f, root) \ {root} :
      \/ f[q].kind = "file" /\ f[q].mode = "-"
      \/ f[q].kind = "link" }

\* C6: when exactly one entry below the directory fails while being
\* processed, readDirectoryStructure still binds every other file to its
\* content and every subdirectory to a nested mapping, and the only error
\* marker is at the failing entry's name.
C6_OneFailureIsolated ==
  (Reader /\ pc = "dummy" /\ Listable(fs0, projectPath)
     /\ Cardinality(FailingEntries(fs0, projectPath)) = 1) =>
    \A q \in Under(fs0, projectPath) \ {projectPath} :
      LET v == Lookup(directoryJSON, Relative(projectPath, q)) IN
      IF q \in FailingEntries(fs0, projectPath) THEN v = FileErrorMarker
      ELSE IF fs0[q].kind = "file" THEN v = Str(fs0[q].content)
      ELSE IF fs0[q].kind = "dir"
           THEN v.t = "obj" /\ "error" \notin DOMAIN v.m
           ELSE v = Missing

\* a second run of generate-project on the same command line has ended
SecondRunEnded == Writer /\ run = 2 /\ Terminated

\* C7 as stated: for a valid document the second run leaves the disk as the
\* first run left it and ends with exit code 0.
C7_SecondRunExitZero ==
  (SecondRunEnded /\ pc \in {"forEach", "done"}) =>
    fs = fs1 /\ exitCode = 0

\* C7 amended: the second run leaves exactly the files and directories, with
\* the contents, that the first run left, and ends with the exit code of
\* the first run: 0 whenever the first run completed with 0.
C7_SecondRunSameOutcome ==
  SecondRunEnded => fs = fs1 /\ exitCode = exit1

C7_Witness ==
  /\ SecondRunEnded /\ exitCode = 0 /\ exit1 = 0
  /\ ~existsSync(fs0, projectRoot)
  /\ \E n \in 1..Len(stdout) : stdout[n].ev = "file"
  /\ \E i, j \in 1..Len(list) :
       /\ i < j /\ ~Skippable(list[i]) /\ ~Skippable(list[j])
       /\ Target(list[i].name) = Target(list[j].name)

\* the targets of the entries of the list that have a name
ListedTargets ==
  { Target(list[i].name) :
      i \in { j \in 1..Len(list) : ~IsNull(list[j]) /\ "name" \in DOMAIN list[j] } }

\* C8: once validation has succeeded and the root step has run, the root
\* exists, and what a pre-existing root held outside the listed targets is
\* still there unchanged.
C8_RootExistsAndKept ==
  (ValidatedRunEnded \/ (Writer /\ pc \in {"forEach", "done"})) =>
    /\ existsSync(fs, projectRoot)
    /\ \A q \in Under(StartFS, projectRoot) \ ListedTargets :
         q \in DOMAIN fs /\ fs[q] = StartFS[q]

\* the entries processed so far, in the order of the log
Processed == SelectSeq(stdout, LAMBDA e : e.i >= 1)

\* the last "file" event for the path of event n is event n itself
LastWrite(n) ==
  \A m \in (n + 1)..Len(stdout) :
    ~(stdout[m].ev = "file" /\ stdout[m].path = stdout[n].path)

\* C9: entries are processed strictly in list order; when processing entry
\* k raises, every file written for an earlier entry is on disk with the
\* content last written to it, no later entry is processed, and the run
\* ends with exit code 1.
C9_OrderAndNoRollback ==
  Writer =>
    /\ \A n \in 1..Len(Processed) : Processed[n].i = n
    /\ ( Len(Processed) > 0 /\ Processed[Len(Processed)].ev = "error" ) =>
         /\ exitCode = 1
         /\ idx = Len(Processed)
         /\ \A n \in 1..Len(stdout) :
              (stdout[n].ev = "file" /\ LastWrite(n)) =>
                /\ stdout[n].path \in DOMAIN fs
                /\ fs[stdout[n].path] = File(list[stdout[n].i].content)

C9_Witness ==
  /\ Writer /\ Len(list) = 3
  /\ Len(Processed) = 2 /\ Processed[2].ev = "error" /\ Processed[1].ev = "file"
  /\ exitCode = 1
  /\ directoryJSON # NotRead

\* C10: every directory created and every file written by generate-project
\* lies inside the resolved output root.
C10_Containment ==
  Writer =>
    \A q \in DOMAIN fs :
      (q \notin DOMAIN StartFS \/ fs[q] # StartFS[q]) => Inside(projectRoot, q)

====
